---- MODULE Spec2Model ----
(***************************************************************************)
(* Model of website/src/main.rs: a periodic website monitor.               *)
(*                                                                         *)
(*   periodic_monitoring  loop { channel(); spawn monitor_websites;        *)
(*                               for status in rx { println }; sleep }     *)
(*   monitor_websites     spawns num_threads workers, then joins them      *)
(*   worker closure       for (index, url) in urls.iter().enumerate()      *)
(*                          if index % num_threads == i                    *)
(*                            { check_website; tx.send(..).unwrap() }      *)
(*   check_website        the retry loop around one blocking HTTP GET      *)
(*                                                                         *)
(* Threads are never reused by the program: every round creates a new      *)
(* channel, a new monitor thread and new workers.  The model therefore     *)
(* keeps one channel, one monitor thread and one array of workers PER      *)
(* ROUND, so that two rounds being active at once is a state the model     *)
(* can express.                                                            *)
(***************************************************************************)
EXTENDS Integers, Sequences, FiniteSets, TLC

\* ------------------------------------------------------------------ bounds
MaxUrls    == 3      \* the endpoint list has 0..MaxUrls entries
MaxThreads == 2      \* num_threads ranges over 0..MaxThreads
MaxRetries == 2      \* retries ranges over 0..MaxRetries
MaxRounds  == 2      \* the scheduler loop is followed for MaxRounds rounds
MaxClock   == 4      \* the logical clock runs from 0 to MaxClock

\* HTTP status codes a server may answer with, and the transport errors
\* (ureq::Error rendered by to_string) a call may end with.
Codes  == {200, 503}
Errors == {"timeout", "refused"}

VARIABLES
    urls,         \* Arc<Vec<String>>: the endpoint list, fixed at start-up
    num_threads,  \* usize parameter of periodic_monitoring
    retries,      \* u32 parameter of periodic_monitoring
    sched,        \* position of the scheduler in the body of `loop`
    round,        \* number of rounds started so far (the current round)
    sleeps,       \* number of thread::sleep(interval) calls that returned
    chan,         \* chan[r]: records sent on round r's channel, not yet received
    senders,      \* senders[r]: who holds a Sender of round r's channel: the
                  \* monitor thread (its parameter tx) and the workers (clones)
    rx,           \* rx[r]: round r's Receiver exists
    mon,          \* mon[r]: the thread running monitor_websites in round r
    worker,       \* worker[r][i]: worker thread i of round r
    sink,         \* the records printed since the current round's channel
                  \* was created (stdout), oldest first
    past,         \* past[r]: what round r printed, summarised when round
                  \* r + 1 starts (stdout is write-only: the program never
                  \* reads a line back)
    now,          \* the clock read by Instant::now() and Utc::now(), in ticks
    made          \* history: HTTP calls made since the current round started
                  \* (counted in SpecCount, 0 elsewhere)

vars == <<urls, num_threads, retries, sched, round, sleeps,
          chan, senders, rx, mon, worker, sink, past, now, made>>

Rounds  == 1..MaxRounds
Workers == 0..(MaxThreads - 1)

\* ------------------------------------------------------------ check_website
\* Result<u16, String>
Ok(code) == [ok |-> TRUE,  code |-> code, err |-> ""]
Err(msg) == [ok |-> FALSE, code |-> 0,    err |-> msg]
NoStatus == [ok |-> FALSE, code |-> 0,    err |-> ""]

\* What one `ureq::get(url).timeout(timeout).call()` can return.
Responses == {Ok(c) : c \in Codes} \cup {Err(e) : e \in Errors}

\* `while attempts <= retries`
LoopGuardExclusive(attempts, r) == attempts < r
LoopGuard(attempts, r) == attempts <= r

\* `Err(_) if attempts < retries`
RetryGuardFlipped(attempts, r) == attempts > r
RetryGuardInclusive(attempts, r) == attempts <= r
RetryGuard(attempts, r) == attempts < r

\* The locals of one call of check_website.  attempts is the code's counter;
\* calls, fails and last are history: the HTTP calls made, how many of them
\* ended in a transport error, and the last response.  done: the call
\* has returned, with result status.
\* start is start_time (and timestamp), elapsed the response_time of the
\* result; issued and spent are history: when the HTTP call in progress was
\* issued, and the sum of the durations of the calls that have returned.
NewFrame == [attempts |-> 0, calls |-> 0, fails |-> 0, last |-> NoStatus,
             done |-> FALSE, status |-> NoStatus,
             start |-> now, issued |-> now, spent |-> 0, elapsed |-> 0]
NoFrame  == [attempts |-> 0, calls |-> 0, fails |-> 0, last |-> NoStatus,
             done |-> FALSE, status |-> NoStatus,
             start |-> 0, issued |-> 0, spent |-> 0, elapsed |-> 0]

\* `start_time.elapsed()`
ElapsedSinceIssue(f) == now - f.issued
Elapsed(f) == now - f.start

\* `match response`: the frame after one HTTP call that returned resp.
MatchResponseStrict(f, resp, r) ==
    LET g == [f EXCEPT !.calls = @ + 1, !.last = resp,
                       !.fails = IF resp.ok THEN @ ELSE @ + 1,
                       !.spent = @ + (now - f.issued), !.issued = now]
    IN  IF resp.ok /\ resp.code < 400
          THEN [g EXCEPT !.done = TRUE, !.status = Ok(resp.code),
                         !.elapsed = Elapsed(f)]
        ELSE IF RetryGuard(f.attempts, r)
          THEN [g EXCEPT !.attempts = @ + 1]
        ELSE [g EXCEPT !.done = TRUE, !.elapsed = Elapsed(f),
                       !.status = Err(IF resp.ok THEN "bad status" ELSE resp.err)]
MatchResponse(f, resp, r) ==
    LET g == [f EXCEPT !.calls = @ + 1, !.last = resp,
                       !.fails = IF resp.ok THEN @ ELSE @ + 1,
                       !.spent = @ + (now - f.issued), !.issued = now]
    IN  IF resp.ok
          THEN [g EXCEPT !.done = TRUE, !.status = Ok(resp.code),
                         !.elapsed = Elapsed(f)]
        ELSE IF RetryGuard(f.attempts, r)
          THEN [g EXCEPT !.attempts = @ + 1]
        ELSE [g EXCEPT !.done = TRUE, !.status = Err(resp.err),
                       !.elapsed = Elapsed(f)]

\* The result after the loop: `Err("Max retries reached")`.
Fallback(f) == [f EXCEPT !.done = TRUE, !.status = Err("Max retries reached"),
                         !.elapsed = Elapsed(f)]

\* --------------------------------------------------------- monitor_websites
\* `index % num_threads == i`
AssignedUpTo(index, i, nt) == index % nt <= i
Assigned(index, i, nt) == index % nt = i

\* `urls.iter().enumerate()`: the pairs (index, url), index counted from 0.
EnumerateRev == [p \in 1..Len(urls) |-> <<Len(urls) - p, urls[Len(urls) + 1 - p]>>]
Enumerate == [p \in 1..Len(urls) |-> <<p - 1, urls[p]>>]

\* The first position at or after pos whose index worker i takes; Len + 1
\* when the iterator is exhausted first.  Only evaluated for a spawned
\* worker, hence with num_threads > 0.
NextPosSkip(pos, i) ==
    LET takes == {p \in (pos + 1)..Len(urls) : Assigned(Enumerate[p][1], i, num_threads)}
    IN  IF takes = {} THEN Len(urls) + 1
        ELSE CHOOSE p \in takes : \A q \in takes : p <= q
NextPos(pos, i) ==
    LET takes == {p \in pos..Len(urls) : Assigned(Enumerate[p][1], i, num_threads)}
    IN  IF takes = {} THEN Len(urls) + 1
        ELSE CHOOSE p \in takes : \A q \in takes : p <= q

\* No Sender of the channel exists: the channel is closed for the receiver.
NoSenders == [monitor |-> FALSE, workers |-> {}]

\* A thread that does not exist (yet).
NoWorker == [pc |-> "none", pos |-> 0, f |-> NoFrame]
NoMon    == [pc |-> "none", i |-> 0, k |-> 0]

\* WebsiteStatus as sent on the channel; round, index, worker and spent are
\* history.
Record(r, i, w) ==
    [url    |-> Enumerate[w.pos][2],
     status |-> w.f.status,
     response_time |-> w.f.elapsed,
     timestamp     |-> w.f.start,
     spent  |-> w.f.spent,
     index  |-> Enumerate[w.pos][1],
     worker |-> i,
     round  |-> r]

\* What one round printed: how many records, for which indices exactly one
\* record, and for which indices a record with an Err status.
Summary(lines) ==
    [delivered |-> Len(lines),
     once      |-> {j \in 0..(Len(urls) - 1) :
                      Cardinality({p \in 1..Len(lines) : lines[p].index = j}) = 1},
     failed    |-> {lines[p].index : p \in {q \in 1..Len(lines) : ~lines[q].status.ok}}]

\* The endpoint list of main, cut to n entries.
Url(j) == "https://site" \o ToString(j)
UrlList(n) == [j \in 1..n |-> Url(j)]

Init ==
    /\ \E n \in 0..MaxUrls : urls = UrlList(n)
    /\ num_threads \in 0..MaxThreads
    /\ retries \in 0..MaxRetries
    /\ sched = "dispatch"
    /\ round = 0
    /\ sleeps = 0
    /\ chan = [r \in Rounds |-> <<>>]
    /\ senders = [r \in Rounds |-> NoSenders]
    /\ rx = [r \in Rounds |-> FALSE]
    /\ mon = [r \in Rounds |-> NoMon]
    /\ worker = [r \in Rounds |-> [i \in Workers |-> NoWorker]]
    /\ sink = <<>>
    /\ past = <<>>
    /\ now = 0
    /\ made = 0

Config == <<urls, num_threads, retries>>

\* ------------------------------------------------------ periodic_monitoring
\* `let (tx, rx) = channel(); thread::spawn(move || monitor_websites(.., tx))`
StartRound ==
    /\ sched = "dispatch"
    /\ round < MaxRounds
    /\ round' = round + 1
    /\ chan' = [chan EXCEPT ![round + 1] = <<>>]
    /\ rx' = [rx EXCEPT ![round + 1] = TRUE]
    /\ senders' = [senders EXCEPT ![round + 1] = [monitor |-> TRUE, workers |-> {}]]
    /\ mon' = [mon EXCEPT ![round + 1] = [pc |-> "run", i |-> 0, k |-> 0]]
    /\ sched' = "drain"
    /\ sink' = <<>>
    /\ past' = IF round = 0 THEN past ELSE Append(past, Summary(sink))
    /\ made' = 0
    /\ UNCHANGED <<Config, now, sleeps, worker>>

RecvOnce ==
    /\ sched = "drain"
    /\ chan[round] # <<>>
    /\ sink' = Append(sink, Head(chan[round]))
    /\ chan' = [chan EXCEPT ![round] = Tail(@)]
    /\ rx' = [rx EXCEPT ![round] = FALSE]
    /\ sched' = "sleep"
    /\ UNCHANGED <<Config, now, round, sleeps, senders, mon, worker, past, made>>
\* One iteration of `for status in rx`: `println!("{:?}", status)`.
Recv ==
    /\ sched = "drain"
    /\ chan[round] # <<>>
    /\ sink' = Append(sink, Head(chan[round]))
    /\ chan' = [chan EXCEPT ![round] = Tail(@)]
    /\ UNCHANGED <<Config, now, sched, round, sleeps, senders, rx, mon, worker, past, made>>

\* `for status in rx` ends: the queue is empty and every Sender is dropped.
\* The Receiver, consumed by the loop, is dropped with it.
DrainEndEarly ==
    /\ sched = "drain"
    /\ chan[round] = <<>>
    /\ rx' = [rx EXCEPT ![round] = FALSE]
    /\ sched' = "sleep"
    /\ UNCHANGED <<Config, now, round, sleeps, chan, senders, mon, worker, sink, past, made>>
DrainEnd ==
    /\ sched = "drain"
    /\ chan[round] = <<>>
    /\ senders[round] = NoSenders
    /\ rx' = [rx EXCEPT ![round] = FALSE]
    /\ sched' = "sleep"
    /\ UNCHANGED <<Config, now, round, sleeps, chan, senders, mon, worker, sink, past, made>>

\* `thread::sleep(interval)` returns; back to the top of `loop`.
SleepEnd ==
    /\ sched = "sleep"
    /\ sleeps' = sleeps + 1
    /\ sched' = "dispatch"
    /\ UNCHANGED <<Config, now, round, chan, senders, rx, mon, worker, sink, past, made>>

\* --------------------------------------------------------- monitor_websites
\* One iteration of `for i in 0..num_threads`: clone tx, spawn worker i.
MonSpawnAtLeastOne(r) ==
    /\ mon[r].pc = "run"
    /\ mon[r].i < (IF num_threads = 0 THEN 1 ELSE num_threads)
    /\ worker' = [worker EXCEPT ![r][mon[r].i] =
                      [pc |-> "iter", pos |-> 1, f |-> NoFrame]]
    /\ senders' = [senders EXCEPT ![r].workers = @ \cup {mon[r].i}]
    /\ mon' = [mon EXCEPT ![r].i = @ + 1]
    /\ UNCHANGED <<Config, now, sched, round, sleeps, chan, rx, sink, past, made>>
MonSpawn(r) ==
    /\ mon[r].pc = "run"
    /\ mon[r].i < num_threads
    /\ worker' = [worker EXCEPT ![r][mon[r].i] =
                      [pc |-> "iter", pos |-> 1, f |-> NoFrame]]
    /\ senders' = [senders EXCEPT ![r].workers = @ \cup {mon[r].i}]
    /\ mon' = [mon EXCEPT ![r].i = @ + 1]
    /\ UNCHANGED <<Config, now, sched, round, sleeps, chan, rx, sink, past, made>>

\* One iteration of `for handle in handles`: `handle.join().unwrap()`.
\* join blocks until the worker has ended; on a worker that panicked it
\* returns Err and unwrap panics: the monitor thread unwinds, dropping its
\* tx and the handles not yet joined (those workers run on, detached).
MonJoin(r) ==
    /\ mon[r].pc = "run"
    /\ mon[r].i = num_threads
    /\ mon[r].k < num_threads
    /\ worker[r][mon[r].k].pc \in {"done", "panicked"}
    /\ IF worker[r][mon[r].k].pc = "done"
         THEN /\ mon' = [mon EXCEPT ![r].k = @ + 1]
              /\ UNCHANGED senders
         ELSE /\ mon' = [mon EXCEPT ![r].pc = "panicked"]
              /\ senders' = [senders EXCEPT ![r].monitor = FALSE]
    /\ UNCHANGED <<Config, now, sched, round, sleeps, chan, rx, worker, sink, past, made>>

MonReturnNoJoin(r) ==
    /\ mon[r].pc = "run"
    /\ mon[r].i = num_threads
    /\ mon' = [mon EXCEPT ![r].pc = "done"]
    /\ senders' = [senders EXCEPT ![r].monitor = FALSE]
    /\ UNCHANGED <<Config, now, sched, round, sleeps, chan, rx, worker, sink, past, made>>
MonReturnKeepTx(r) ==
    /\ mon[r].pc = "run"
    /\ mon[r].i = num_threads
    /\ mon[r].k = num_threads
    /\ mon' = [mon EXCEPT ![r].pc = "done"]
    /\ UNCHANGED <<Config, now, sched, round, sleeps, chan, senders, rx, worker, sink, past, made>>
\* monitor_websites returns: its parameter tx is dropped, the thread ends.
MonReturn(r) ==
    /\ mon[r].pc = "run"
    /\ mon[r].i = num_threads
    /\ mon[r].k = num_threads
    /\ mon' = [mon EXCEPT ![r].pc = "done"]
    /\ senders' = [senders EXCEPT ![r].monitor = FALSE]
    /\ UNCHANGED <<Config, now, sched, round, sleeps, chan, rx, worker, sink, past, made>>

\* ------------------------------------------------------- the worker closure
\* The `for (index, url)` loop runs on to the next index with
\* index % num_threads == i and calls check_website there; when the iterator
\* is exhausted the closure returns, dropping the worker's tx.
\* With num_threads = 0 the remainder `index % num_threads` panics (Rust
\* checks the divisor) as soon as the list yields an item.
WorkerIter(r, i) ==
    /\ worker[r][i].pc = "iter"
    /\ IF num_threads = 0
         THEN /\ worker' = [worker EXCEPT ![r][i] =
                    [pc  |-> IF worker[r][i].pos > Len(urls) THEN "done" ELSE "panicked",
                     pos |-> worker[r][i].pos, f |-> NoFrame]]
              /\ senders' = [senders EXCEPT ![r].workers = @ \ {i}]
         ELSE LET p == NextPos(worker[r][i].pos, i)
              IN  IF p > Len(urls)
                    THEN /\ worker' = [worker EXCEPT ![r][i] =
                                    [pc |-> "done", pos |-> p, f |-> NoFrame]]
                         /\ senders' = [senders EXCEPT ![r].workers = @ \ {i}]
                    ELSE /\ worker' = [worker EXCEPT ![r][i] =
                                    [pc |-> "check", pos |-> p, f |-> NewFrame]]
                         /\ UNCHANGED senders
    /\ UNCHANGED <<Config, now, sched, round, sleeps, chan, rx, mon, sink, past, made>>

\* One pass of `while attempts <= retries` inside check_website: the loop
\* test, then one blocking HTTP call and the match on its response.
AttemptStep(r, i) ==
    /\ worker[r][i].pc = "check"
    /\ ~worker[r][i].f.done
    /\ IF LoopGuard(worker[r][i].f.attempts, retries)
         THEN \E resp \in Responses :
                worker' = [worker EXCEPT ![r][i].f =
                               MatchResponse(worker[r][i].f, resp, retries)]
         ELSE worker' = [worker EXCEPT ![r][i].f = Fallback(worker[r][i].f)]
    /\ UNCHANGED <<Config, now, sched, round, sleeps, chan, senders, rx, mon, sink, past>>

WorkerAttempt(r, i) ==
    /\ AttemptStep(r, i)
    /\ UNCHANGED made

\* The same step with the HTTP calls of the round counted in made (the
\* counter is history, kept in SpecCount only).
WorkerAttemptCounted(r, i) ==
    /\ AttemptStep(r, i)
    /\ made' = IF LoopGuard(worker[r][i].f.attempts, retries)
                 THEN made + 1 ELSE made

WorkerSendStopOnErr(r, i) ==
    /\ worker[r][i].pc = "check"
    /\ worker[r][i].f.done
    /\ chan' = [chan EXCEPT ![r] = Append(@, Record(r, i, worker[r][i]))]
    /\ IF worker[r][i].f.status.ok
         THEN /\ worker' = [worker EXCEPT ![r][i] =
                                [pc |-> "iter", pos |-> worker[r][i].pos + 1,
                                 f |-> NoFrame]]
              /\ UNCHANGED senders
         ELSE /\ worker' = [worker EXCEPT ![r][i] =
                                [pc |-> "done", pos |-> worker[r][i].pos,
                                 f |-> NoFrame]]
              /\ senders' = [senders EXCEPT ![r].workers = @ \ {i}]
    /\ UNCHANGED <<Config, now, sched, round, sleeps, rx, mon, sink, past, made>>
\* `tx.send(status).unwrap()`: send fails only when the Receiver is gone, and
\* then unwrap panics: the worker unwinds, dropping its tx.
WorkerSend(r, i) ==
    /\ worker[r][i].pc = "check"
    /\ worker[r][i].f.done
    /\ IF rx[r]
         THEN /\ chan' = [chan EXCEPT ![r] = Append(@, Record(r, i, worker[r][i]))]
              /\ worker' = [worker EXCEPT ![r][i] =
                                [pc |-> "iter", pos |-> worker[r][i].pos + 1,
                                 f |-> NoFrame]]
              /\ UNCHANGED senders
         ELSE /\ worker' = [worker EXCEPT ![r][i] =
                                [pc |-> "panicked", pos |-> worker[r][i].pos,
                                 f |-> NoFrame]]
              /\ senders' = [senders EXCEPT ![r].workers = @ \ {i}]
              /\ UNCHANGED chan
    /\ UNCHANGED <<Config, now, sched, round, sleeps, rx, mon, sink, past, made>>

Next ==
    \/ StartRound
    \/ Recv
    \/ DrainEnd
    \/ SleepEnd
    \/ \E r \in Rounds : MonSpawn(r)
    \/ \E r \in Rounds : MonJoin(r)
    \/ \E r \in Rounds : MonReturn(r)
    \/ \E r \in Rounds, i \in Workers : WorkerIter(r, i)
    \/ \E r \in Rounds, i \in Workers : WorkerAttempt(r, i)
    \/ \E r \in Rounds, i \in Workers : WorkerSend(r, i)

Spec == Init /\ [][Next]_vars

\* The program with its HTTP calls counted per round.
NextCount ==
    \/ StartRound
    \/ Recv
    \/ DrainEnd
    \/ SleepEnd
    \/ \E r \in Rounds : MonSpawn(r)
    \/ \E r \in Rounds : MonJoin(r)
    \/ \E r \in Rounds : MonReturn(r)
    \/ \E r \in Rounds, i \in Workers : WorkerIter(r, i)
    \/ \E r \in Rounds, i \in Workers : WorkerAttemptCounted(r, i)
    \/ \E r \in Rounds, i \in Workers : WorkerSend(r, i)

SpecCount == Init /\ [][NextCount]_vars

\* A worker thread ends abnormally while inside check_website (a panic
\* raised below the call, in the transport or the allocator): the closure
\* unwinds and drops its tx; JoinHandle::join will return Err for it.  No
\* statement of main.rs raises such a panic itself, so this step is taken
\* only in SpecPanic.
WorkerAbort(r, i) ==
    /\ worker[r][i].pc = "check"
    /\ ~worker[r][i].f.done
    /\ worker' = [worker EXCEPT ![r][i] =
                      [pc |-> "panicked", pos |-> worker[r][i].pos, f |-> NoFrame]]
    /\ senders' = [senders EXCEPT ![r].workers = @ \ {i}]
    /\ UNCHANGED <<Config, now, sched, round, sleeps, chan, rx, mon, sink, past, made>>

NextPanic ==
    \/ Next
    \/ \E r \in Rounds, i \in Workers : WorkerAbort(r, i)

SpecPanic == Init /\ [][NextPanic]_vars

\* The threads are scheduled fairly and every blocking call returns (an HTTP
\* call ends in a response or a timeout, a sleep ends, join returns once the
\* worker has ended): while some thread can take a step, a step is taken.
\* This is weaker than fairness to each thread, which the scheduler gives.
Fairness == WF_vars(Next)

SpecLive == Init /\ [][Next]_vars /\ Fairness

\* Time passes: at any moment, also while a thread is blocked in an HTTP
\* call or in the sleep.  A worker's step of check_website is the return of
\* its HTTP call, which was issued at the worker's step before.
Tick ==
    /\ now < MaxClock
    /\ now' = now + 1
    /\ UNCHANGED <<Config, sched, round, sleeps, chan, senders, rx, mon, worker,
                   sink, past, made>>

\* check_website on its own: one endpoint and one worker, so that every step
\* of a round is a step of one call after the other; retries is the input.
InitProber ==
    /\ Init
    /\ Len(urls) = 1
    /\ num_threads = 1

SpecProber == InitProber /\ [][Next]_vars

\* check_website on its own, with the clock running.
NextTimed ==
    \/ Next
    \/ Tick

SpecTimed == InitProber /\ [][NextTimed]_vars

\* ================================================================== claims
Indices == 0..(Len(urls) - 1)

\* The frames of the calls of check_website that are in progress or have
\* just returned (the result not yet sent).
Calls ==
    {worker[t[1]][t[2]].f :
        t \in {u \in Rounds \X Workers : worker[u[1]][u[2]].pc = "check"}}

\* The records of the current round that exist: printed, or still queued.
Emitted == IF round = 0 THEN sink ELSE sink \o chan[round]

\* How often index j has been taken up in the current round: records
\* printed or queued, and checks in progress.
Taken(j) ==
    Cardinality({p \in 1..Len(Emitted) : Emitted[p].index = j})
    + (IF round = 0 THEN 0
       ELSE Cardinality({i \in Workers : /\ worker[round][i].pc = "check"
                                         /\ Enumerate[worker[round][i].pos][1] = j}))

PrintedOnce(j) == Cardinality({p \in 1..Len(sink) : sink[p].index = j}) = 1

\* C1: with num_threads >= 1, when the scheduler is in its sleep the round
\* has printed exactly Len(urls) records, exactly one for each index, each
\* carrying the url at its index; the same holds of every earlier round.
C1_RoundDeliversAll ==
    (num_threads >= 1) =>
        /\ sched = "sleep" =>
              /\ Len(sink) = Len(urls)
              /\ \A j \in Indices : PrintedOnce(j)
              /\ \A p \in 1..Len(sink) :
                    /\ sink[p].round = round
                    /\ sink[p].index \in Indices
                    /\ sink[p].url = urls[sink[p].index + 1]
        /\ \A r \in 1..Len(past) :
              past[r].delivered = Len(urls) /\ past[r].once = Indices

C1_Witness ==
    /\ sched = "sleep"
    /\ num_threads = MaxThreads
    /\ Len(urls) = MaxUrls
    /\ Len(sink) = MaxUrls
    /\ sink[1].worker # 0

\* C2: rounds never overlap: a round that is over (an earlier round, or the
\* current one once the scheduler has left the drain loop) has no thread
\* running, no Sender, no Receiver and no record queued; and round N + 1
\* has started only if N sleeps have returned.
Quiescent(r) ==
    /\ mon[r].pc = "done"
    /\ \A i \in Workers : worker[r][i].pc \in {"none", "done"}
    /\ chan[r] = <<>>
    /\ senders[r] = NoSenders
    /\ ~rx[r]

C2_NoOverlap ==
    /\ \A r \in 1..round : (r < round \/ sched # "drain") => Quiescent(r)
    /\ \A r \in Rounds : r > round => (mon[r] = NoMon /\ ~rx[r])
    /\ round = sleeps + (IF sched = "dispatch" THEN 0 ELSE 1)

C2_Witness ==
    /\ round = 2
    /\ sleeps = 1
    /\ sched = "drain"
    /\ \E i \in Workers : worker[2][i].pc = "check"
    /\ past[1].delivered > 0

\* C3: the partition is total and disjoint: with num_threads >= 1 every
\* index is taken by worker index % num_threads and by no other; in a
\* round no index is taken up twice, and at the sleep every index has been.
C3_Partition ==
    (num_threads >= 1) =>
        /\ \A j \in Indices :
              {i \in 0..(num_threads - 1) : Assigned(j, i, num_threads)}
                  = {j % num_threads}
        /\ \A p \in 1..Len(Emitted) :
              Emitted[p].worker = Emitted[p].index % num_threads
        /\ \A j \in Indices : Taken(j) <= 1
        /\ sched = "sleep" => \A j \in Indices : Taken(j) = 1

C3_Witness ==
    /\ Len(urls) = 3
    /\ num_threads = 2
    /\ sched = "sleep"
    /\ {sink[p].index : p \in {q \in 1..Len(sink) : sink[q].worker = 0}} = {0, 2}
    /\ {sink[p].index : p \in {q \in 1..Len(sink) : sink[q].worker = 1}} = {1}

\* C4: a call of check_website all of whose HTTP calls failed returns only
\* after exactly retries + 1 calls, and returns an Err status; while it has
\* not returned it has made at most retries + 1 calls.
C4_AlwaysFailing ==
    \A f \in Calls :
        /\ (f.done /\ f.fails = f.calls) =>
              (f.calls = retries + 1 /\ ~f.status.ok)
        /\ f.calls <= retries + 1

C4_Witness ==
    \E f \in Calls :
        /\ f.done
        /\ f.fails = f.calls
        /\ retries = MaxRetries
        /\ f.calls = MaxRetries + 1

\* C5: a call of check_website that returns after k < retries failed HTTP
\* calls returns an Ok status after exactly k + 1 calls; no call is made
\* after a response: a frame with a response has returned.
C5_FailThenSucceed ==
    \A f \in Calls :
        /\ (f.done /\ f.fails < retries) =>
              (f.status.ok /\ f.calls = f.fails + 1)
        /\ f.calls - f.fails <= 1
        /\ f.calls > f.fails => f.done

C5_Witness ==
    \E f \in Calls :
        /\ f.done
        /\ f.status.ok
        /\ f.fails = 1
        /\ f.calls = 2
        /\ retries = 2

C7_ZeroWorkersRejected == (num_threads = 0) => (round = 0)

\* C8: once a join has failed in round r, the scheduler starts no further
\* round.
C8_JoinFailureFatal ==
    \A r \in 1..round : mon[r].pc = "panicked" => round = r

\* C9: a check that ends in Failure stops nothing: no thread panics; a round
\* that printed a Failure printed one record for every index all the same;
\* and the next round can start whatever the last one printed.
C9_FailureIsolated ==
    /\ \A r \in Rounds :
          /\ mon[r].pc # "panicked"
          /\ \A i \in Workers : worker[r][i].pc # "panicked"
    /\ \A r \in 1..Len(past) :
          past[r].failed # {} =>
              (past[r].delivered = Len(urls) /\ past[r].once = Indices)
    /\ (sched = "sleep" /\ \E p \in 1..Len(sink) : ~sink[p].status.ok) =>
          \A j \in Indices : PrintedOnce(j)
    /\ (sched = "dispatch" /\ round < MaxRounds) => ENABLED StartRound

C9_Witness ==
    /\ round = 2
    /\ sched = "sleep"
    /\ Len(urls) >= 2
    /\ 0 \in past[1].failed
    /\ \A j \in Indices : PrintedOnce(j)
    /\ \E p \in 1..Len(sink) : sink[p].index = 1 /\ sink[p].status.ok

\* C10: the records of one worker are emitted (queued, then printed) in
\* ascending index order, and a worker's check in progress is at an index
\* above all the indices it has emitted in the round.
C10_PerWorkerFifo ==
    /\ \A p, q \in 1..Len(Emitted) :
          (p < q /\ Emitted[p].worker = Emitted[q].worker) =>
              Emitted[p].index < Emitted[q].index
    /\ \A p, q \in 1..Len(sink) :
          (p < q /\ sink[p].worker = sink[q].worker) =>
              sink[p].index < sink[q].index
    /\ round > 0 =>
          \A i \in Workers : worker[round][i].pc = "check" =>
              \A p \in 1..Len(Emitted) :
                  Emitted[p].worker = i =>
                      Emitted[p].index < Enumerate[worker[round][i].pos][1]

C10_Witness ==
    /\ Len(sink) = 3
    /\ sink[1].worker = 0 /\ sink[1].index = 0
    /\ sink[2].worker = 0 /\ sink[2].index = 2
    /\ sink[3].worker = 1 /\ sink[3].index = 1

\* C11: under fair scheduling every round that has started completes and the
\* scheduler reaches its sleep in that round, and from the sleep of round n
\* (and from the start of the program) the next round starts, for every
\* round the model follows.
C11_RoundsAlternate ==
    /\ \A n \in Rounds :
          (round = n /\ sched = "drain") ~> (round = n /\ sched = "sleep")
    /\ \A n \in 0..(MaxRounds - 1) :
          (round = n /\ sched # "drain") ~> (round = n + 1 /\ sched = "drain")

C11_Witness ==
    /\ round = MaxRounds
    /\ sleeps = MaxRounds - 1
    /\ sched = "sleep"
    /\ num_threads = MaxThreads
    /\ Len(sink) = MaxUrls
    /\ past[1].delivered = MaxUrls

\* C12: while the scheduler sleeps no worker of any round is running or
\* holds a Sender, and a monitor thread that has returned from
\* monitor_websites has joined every one of its num_threads workers, all of
\* which ran to the end of the list.
C12_SleepMeansAllJoined ==
    /\ sched = "sleep" =>
          \A r \in Rounds :
              /\ senders[r] = NoSenders
              /\ \A i \in Workers : worker[r][i].pc \in {"none", "done"}
    /\ \A r \in Rounds :
          mon[r].pc = "done" =>
              /\ mon[r].i = num_threads
              /\ mon[r].k = num_threads
              /\ \A i \in 0..(num_threads - 1) :
                    /\ worker[r][i].pc = "done"
                    /\ worker[r][i].pos = Len(urls) + 1
                    /\ i \notin senders[r].workers

C12_Witness ==
    /\ sched = "sleep"
    /\ num_threads = MaxThreads
    /\ Len(urls) = MaxUrls
    /\ mon[round].pc = "done"
    /\ mon[round].k = MaxThreads
    /\ \A i \in Workers : worker[round][i].pc = "done"

\* C13: with more workers than endpoints, a worker i >= Len(urls) never
\* calls check_website and emits no record, and at the sleep it has ended
\* and the round has printed exactly Len(urls) records.
C13_ExcessWorkersIdle ==
    (num_threads > Len(urls)) =>
        /\ \A r \in Rounds : \A i \in Workers :
              i >= Len(urls) => worker[r][i].pc \in {"none", "iter", "done"}
        /\ \A p \in 1..Len(Emitted) : Emitted[p].worker < Len(urls)
        /\ sched = "sleep" =>
              /\ Len(sink) = Len(urls)
              /\ \A i \in 0..(num_threads - 1) : worker[round][i].pc = "done"

C13_Witness ==
    /\ num_threads = 2
    /\ Len(urls) = 1
    /\ sched = "sleep"
    /\ Len(sink) = 1
    /\ worker[round][1].pc = "done"
    /\ round = 2
    /\ past[1].delivered = 1

\* C15: the result after the loop is never produced: inside the loop the
\* counter stays <= retries, and a call that has returned made at least one
\* HTTP call and returns Ok of the response or Err of the last call's error.
C15_FallbackUnreachable ==
    /\ \A f \in Calls :
          /\ f.attempts <= retries
          /\ f.done =>
                /\ f.calls >= 1
                /\ f.status.err # "Max retries reached"
                /\ f.status = f.last
                /\ f.status.ok \/ f.status.err \in Errors
    /\ \A p \in 1..Len(Emitted) : Emitted[p].status.err # "Max retries reached"

C15_Witness ==
    \E f \in Calls :
        /\ f.done
        /\ ~f.status.ok
        /\ f.status.err = "refused"
        /\ f.attempts = retries
        /\ retries = MaxRetries

\* C16: workers are per round: round r has spawned workers 0..mon[r].i - 1,
\* never more than num_threads, and exactly num_threads once all are
\* spawned; at most num_threads workers are alive at a time; only workers
\* of the current round are alive, and every record emitted is theirs.
Alive == {t \in Rounds \X Workers : worker[t[1]][t[2]].pc \in {"iter", "check"}}

C16_FreshWorkersPerRound ==
    /\ Cardinality(Alive) <= num_threads
    /\ \A t \in Alive : t[1] = round
    /\ \A r \in Rounds :
          /\ mon[r].i <= num_threads
          /\ {i \in Workers : worker[r][i].pc # "none"} = 0..(mon[r].i - 1)
          /\ mon[r].pc = "done" => mon[r].i = num_threads
          /\ r # round => chan[r] = <<>>
    /\ \A p \in 1..Len(Emitted) : Emitted[p].round = round

C16_Witness ==
    /\ round = 2
    /\ num_threads = MaxThreads
    /\ Cardinality(Alive) = MaxThreads
    /\ \A i \in Workers : worker[1][i].pc = "done" /\ worker[2][i].pc = "check"

\* C17: a worker that exists and has not ended belongs to the round being
\* drained and its channel's Receiver exists, so the send of a worker that
\* has a result succeeds; no worker has panicked, and every result a worker
\* has had is queued or printed.
C17_SendNeverFails ==
    /\ \A r \in Rounds : \A i \in Workers :
          /\ worker[r][i].pc \in {"iter", "check"} =>
                (rx[r] /\ r = round /\ sched = "drain")
          /\ worker[r][i].pc # "panicked"
    /\ round > 0 =>
          \A i \in Workers :
              worker[round][i].pc \in {"iter", "check", "done"} =>
                  Cardinality({p \in 1..Len(Emitted) : Emitted[p].worker = i})
                    = Cardinality({q \in 1..(worker[round][i].pos - 1) :
                                     Assigned(Enumerate[q][1], i, num_threads)})

C17_Witness ==
    \E i \in Workers :
        /\ round = 2
        /\ worker[2][i].pc = "check"
        /\ worker[2][i].f.done
        /\ worker[2][i].pos > 1
        /\ rx[2]
        /\ Len(chan[2]) > 0

\* C19: with num_threads = 0 no worker is ever spawned, so no remainder is
\* evaluated and nothing panics; no record is ever queued or printed; the
\* monitor thread returns, the rounds are empty and the next one can start.
C19_ZeroWorkersEmptyRounds ==
    (num_threads = 0) =>
        /\ \A r \in Rounds :
              /\ \A i \in Workers : worker[r][i] = NoWorker
              /\ mon[r].pc \in {"none", "run", "done"}
              /\ chan[r] = <<>>
              /\ senders[r].workers = {}
        /\ sink = <<>>
        /\ \A r \in 1..Len(past) : past[r].delivered = 0
        /\ (sched = "dispatch" /\ round < MaxRounds) => ENABLED StartRound
        /\ sched = "sleep" => mon[round].pc = "done"

C19_Witness ==
    /\ num_threads = 0
    /\ Len(urls) = MaxUrls
    /\ round = 2
    /\ sched = "sleep"
    /\ sleeps = 1
    /\ Len(past) = 1

\* C14: the response_time of a result is at least the sum of the durations
\* of all the HTTP calls of that check, failed ones included: start_time is
\* read before the first call and never again, so at every moment the time
\* since start_time covers the calls made so far.
C14_ElapsedCoversAttempts ==
    /\ \A f \in Calls :
          /\ f.start + f.spent <= now
          /\ f.start <= f.issued
          /\ f.done => (f.elapsed >= f.spent /\ f.start + f.elapsed <= now)
    /\ \A p \in 1..Len(Emitted) : Emitted[p].response_time >= Emitted[p].spent

C14_Witness ==
    \E f \in Calls :
        /\ f.done
        /\ ~f.status.ok
        /\ f.calls = 3
        /\ f.start = 1
        /\ f.spent = 3
        /\ f.elapsed = 3

====
